---- MODULE Spec2Model ----
(***************************************************************************)
(* A model of git-review, a stack-based review workflow on top of git and  *)
(* the GitHub pull-request API.  Two variants of the tool are in the       *)
(* repository: src/git_review.py ("git_review") and the older              *)
(* src/git-review.py ("git-review").  The model carries the variant as a   *)
(* value fixed at start-up and follows the code of the chosen variant      *)
(* wherever the two differ.                                                *)
(*                                                                         *)
(* Text is modelled as sequences of one-character strings, so that the     *)
(* regular expressions and string tests of the code are computed and not   *)
(* assumed.  The git repository and the hosting platform are modelled by   *)
(* the state they keep: the checked-out branch, the local and remote       *)
(* branch heads, the commits of the stack and the open pull requests.      *)
(* Every external call may fail for reasons outside the tool (ok = FALSE). *)
(***************************************************************************)
EXTENDS Integers, Sequences, FiniteSets, TLC

VARIABLES
    variant,     \* which of the two source files runs
    store,       \* git config --local: the review.* keys
    head,        \* the checked-out branch
    local,       \* local branch name -> commit, or None
    remote,      \* branch name on the remote -> commit, or None
    dirty,       \* git status --porcelain is non-empty
    stack,       \* commits of main..branch, oldest first
    base,        \* the version of main the stack sits on
    upstream,    \* the version of main on the remote
    prs,         \* open pull requests on the platform
    cmd,         \* the subcommand being run, "none" before the first
    args,        \* its command-line arguments
    pc,          \* position inside the running subcommand
    config,      \* Config loaded by load_all_config
    lst,         \* the entries returned by listing / augmented_listing
    idx,         \* index into lst of the entry being exported
    calls,       \* external calls issued by this invocation, in order
    out,         \* what this invocation reported on stdout
    exit,        \* exit status of this invocation, read once pc = "exited"
    runs,        \* number of invocations started so far
    before,      \* head, working-branch commit and remote when the invocation began
    prev         \* how the previous invocation ended

vars == <<variant, store, head, local, remote, dirty, stack, base, upstream,
          prs, cmd, args, pc, config, lst, idx, calls, out, exit, runs, before, prev>>

repo == <<head, local, remote, dirty, stack, base, upstream, prs>>

----------------------------------------------------------------------------
(* Bounds *)

MaxStack == 2
MaxRuns == 2

----------------------------------------------------------------------------
(* Text *)

None == <<"None">>

Upper == <<"A","B","C","D","E","F","G","H","I","J","K","L","M",
           "N","O","P","Q","R","S","T","U","V","W","X","Y","Z">>
LowerOf == <<"a","b","c","d","e","f","g","h","i","j","k","l","m",
             "n","o","p","q","r","s","t","u","v","w","x","y","z">>

UpperCase == {Upper[i] : i \in 1..26}

LowerMap == [c \in UpperCase |-> LowerOf[CHOOSE i \in 1..26 : Upper[i] = c]]

LowerChar(c) == IF c \in UpperCase THEN LowerMap[c] ELSE c

Lower(s) == [i \in 1..Len(s) |-> LowerChar(s[i])]

StartsWith(s, p) == Len(s) >= Len(p) /\ SubSeq(s, 1, Len(p)) = p

IsSpace(c) == c \in {" ", "\t"}
IsDigit(c) == c \in {"0","1","2","3","4","5","6","7","8","9"}

Reverse(s) == [i \in 1..Len(s) |-> s[Len(s) + 1 - i]]

\* text.split("\n")
RECURSIVE SplitLines(_)
SplitLines(s) ==
    IF \E i \in 1..Len(s) : s[i] = "\n"
    THEN LET i == CHOOSE i \in 1..Len(s) :
                      s[i] = "\n" /\ \A j \in 1..(i - 1) : s[j] # "\n"
         IN  <<SubSeq(s, 1, i - 1)>> \o SplitLines(SubSeq(s, i + 1, Len(s)))
    ELSE <<s>>

\* the lines of a text joined by line breaks
RECURSIVE JoinLines(_)
JoinLines(ls) ==
    IF ls = <<>> THEN <<>>
    ELSE IF Len(ls) = 1 THEN ls[1]
    ELSE ls[1] \o <<"\n">> \o JoinLines(Tail(ls))

\* str.strip(): no whitespace or line break at either end
StripText(s) ==
    LET inked == {i \in 1..Len(s) : ~IsSpace(s[i]) /\ s[i] # "\n"}
    IN  IF inked = {} THEN <<>>
        ELSE SubSeq(s, CHOOSE i \in inked : \A j \in inked : i <= j,
                       CHOOSE i \in inked : \A j \in inked : i >= j)

\* a line without its trailing whitespace
RECURSIVE RStrip(_)
RStrip(s) ==
    IF s # <<>> /\ IsSpace(s[Len(s)])
    THEN RStrip(SubSeq(s, 1, Len(s) - 1))
    ELSE s

\* runs of empty lines collapsed to one empty line
RECURSIVE Squeeze(_)
Squeeze(ls) ==
    IF Len(ls) <= 1 THEN ls
    ELSE IF ls[1] = <<>> /\ ls[2] = <<>> THEN Squeeze(Tail(ls))
    ELSE <<ls[1]>> \o Squeeze(Tail(ls))

\* the lines git commit -F keeps of a message: trailing whitespace removed
\* from every line, runs of empty lines collapsed, no empty line at either end
Cleanup(ls) ==
    LET sq == Squeeze([i \in 1..Len(ls) |-> RStrip(ls[i])])
        a == IF sq # <<>> /\ sq[1] = <<>> THEN 2 ELSE 1
        b == IF sq # <<>> /\ sq[Len(sq)] = <<>> THEN Len(sq) - 1 ELSE Len(sq)
    IN  SubSeq(sq, a, b)

\* the lines of the first paragraph joined by single spaces: the subject git
\* log --oneline prints
RECURSIVE JoinParagraph(_)
JoinParagraph(ls) ==
    IF ls = <<>> \/ ls[1] = <<>> THEN <<>>
    ELSE IF Len(ls) = 1 \/ ls[2] = <<>> THEN ls[1]
    ELSE ls[1] \o <<" ">> \o JoinParagraph(Tail(ls))

\* program constants
META_VAR == <<"P","R","_","B","R","A","N","C","H">>
WIP_TAG == <<"w","i","p">>
BRANCH_TAG_LENGTH == 8
DEFAULT_MAIN == <<"m","a","i","n">>
DEFAULT_MASTER == <<"m","a","s","t","e","r">>
DEFAULT_ORIGIN == <<"o","r","i","g","i","n">>

----------------------------------------------------------------------------
(* The two patterns of the stack lister *)

\* index of the first character of s satisfying whitespace, 0 if none
FirstSpace(s) ==
    IF \E i \in 1..Len(s) : IsSpace(s[i])
    THEN CHOOSE i \in 1..Len(s) :
            IsSpace(s[i]) /\ \A j \in 1..(i - 1) : ~IsSpace(s[j])
    ELSE 0

\* index just after the run of digits of s that starts at position from
DigitsEnd(s, from) ==
    CHOOSE j \in from..(Len(s) + 1) :
        /\ \A k \in from..(j - 1) : IsDigit(s[k])
        /\ (j = Len(s) + 1 \/ ~IsDigit(s[j]))

\* onelinePattern.match(line): the groups, or None.
\*   git_review: ^([^\s]*)\s([0-9]+):\s(.*)$   -> <<commit, issue, message>>
\*   git-review: ^([^\s]*)\s(.*)$              -> <<commit, None, message>>
onelinePattern(v, line) ==
    LET sp == FirstSpace(line) IN
    IF sp = 0 THEN None
    ELSE IF v = "git-review"
         THEN <<SubSeq(line, 1, sp - 1), None, SubSeq(line, sp + 1, Len(line))>>
         ELSE LET e == DigitsEnd(line, sp + 1) IN
              IF /\ e > sp + 1
                 /\ e + 1 <= Len(line)
                 /\ line[e] = ":"
                 /\ IsSpace(line[e + 1])
              THEN <<SubSeq(line, 1, sp - 1),
                     SubSeq(line, sp + 1, e - 1),
                     SubSeq(line, e + 2, Len(line))>>
              ELSE None

\* metaVarPattern.match(line): group 1, or None.   ^PR_BRANCH=(.*)$
metaVarPattern(line) ==
    IF StartsWith(line, META_VAR \o <<"=">>)
    THEN SubSeq(line, Len(META_VAR) + 2, Len(line))
    ELSE None

\* review_branch.extract: the value of the first matching line, None if no
\* line matches (the Python function falls off its end)
RECURSIVE extractBranch(_)
extractBranch(lines) ==
    IF lines = <<>> THEN None
    ELSE IF metaVarPattern(Head(lines)) # None
         THEN metaVarPattern(Head(lines))
         ELSE extractBranch(Tail(lines))

----------------------------------------------------------------------------
(* Names and commits *)

WORK == <<"w","o","r","k">>
USER == <<"u">>
TOKEN == <<"t">>
OWNER == <<"o","w","n","e","r">>
B1 == <<"B","1">>
B2 == <<"B","2">>
OLD == <<"o","0">>

Trailer(b) == META_VAR \o <<"=">> \o b

\* a commit: its abbreviated hash, its subject line and the lines after it
Commit(h, s, b) == [hash |-> h, subject |-> s, body |-> b]

c1 == Commit(<<"c","1">>, <<"w","i","p",":"," ","T","-","1",":"," ","f","i","x"," ","x">>, <<<<>>, Trailer(B1)>>)
c2 == Commit(<<"c","2">>, <<"T","-","2",":"," ","f","i","x"," ","y">>, <<<<>>, Trailer(B2)>>)
c3 == Commit(<<"c","3">>, <<"1","2",":"," ","f","i","x"," ","z">>, <<<<>>, Trailer(B1)>>)
c4 == Commit(<<"c","4">>, <<"7",":"," ","W","I","P"," ","y">>, <<<<>>, Trailer(B2)>>)
c5 == Commit(<<"c","5">>, <<"3",":"," ","f","i","x"," ","q">>, <<>>)
c6 == Commit(<<"c","6">>, <<"W","I","P",":"," ","5",":"," ","b">>, <<<<>>, Trailer(B1)>>)
c7 == Commit(<<"c","7">>, <<"8",":"," ","f","i","x"," ","w">>, <<<<>>, Trailer(B2)>>)

c8 == Commit(<<"c","8">>, <<" "," ">> \o Trailer(<<"z">>), <<<<>>, <<"b">>>>)

\* a commit whose trailer names the integration branch of git_review.py
c9 == Commit(<<"c","9">>, <<"9",":"," ","f","i","x"," ","m">>, <<<<>>, Trailer(DEFAULT_MAIN)>>)

Pool == <<c2, c1, c5, c3, c7, c4, c6, c8>>

\* the stacks a repository can hold at start-up: up to MaxStack commits that
\* follow one another in Pool, or the one commit c9
Stacks ==
    {SubSeq(Pool, w[1], w[1] + w[2] - 1) :
        w \in {x \in (1..Len(Pool)) \X (0..MaxStack) :
                  x[1] + x[2] - 1 <= Len(Pool)}}
        \cup {<<c9>>}

\* a branch name that is not one new derives
INJECTED == <<"z">>

\* a message of two lines, the second of which has the shape of a trailer
TwoLines == <<"a", "\n">> \o Trailer(INJECTED)

\* the inputs of "new": an issue number or HOTFIX; a message of one line, a
\* message of two lines, or no message
Issues == {<<"3">>, <<"H","O","T","F","I","X">>}
Messages == {<<"a">>, TwoLines, None}
IssueTitle == <<"t">>
Tags == {<<"a","b","c","d","e","f","g","h">>}
NewHash == <<"n","1">>

MainName(v) == IF v = "git-review" THEN DEFAULT_MASTER ELSE DEFAULT_MAIN

MainCommit(n) == <<"m", IF n = 0 THEN "0" ELSE "1">>

\* the branch names in play; None is among them because Python formats an
\* absent branch as the text "None"
Branches ==
    {WORK, DEFAULT_MAIN, DEFAULT_MASTER, B1, B2, INJECTED, None}
        \cup {i \o <<"-">> \o t : i \in Issues, t \in Tags}

Tip(s, b) == IF s = <<>> THEN MainCommit(b) ELSE s[Len(s)].hash

Label(owner, branch) == owner \o <<":">> \o branch
Url(branch) == <<"u","r","l",":">> \o branch
PullRequest(branch) == [label |-> Label(OWNER, branch), url |-> Url(branch)]

----------------------------------------------------------------------------
(* External calls *)

\* one external call as the run recorded it: what was called, its argument
\* (or, for a query, what it returned), whether it succeeded, whether the
\* call site declared a fallback, the entry it was issued for and the
\* payload of a POST
Call(n, a, ok, fb, e, p) ==
    [name |-> n, arg |-> a, ok |-> ok, fallback |-> fb, entry |-> e,
     payload |-> p]

Git(n, a, ok, e) == Call(n, a, ok, FALSE, e, None)

Mutating ==
    {"commit", "checkout", "checkout -b", "branch -D", "pull", "rebase",
     "rebase -i", "push", "POST pulls"}

\* a tool that ends with status 0 when a call has failed
FailWithStatusZero ==
    /\ pc' = "exited"
    /\ exit' = 0

\* sys.exit(1)
Fail ==
    /\ pc' = "exited"
    /\ exit' = 1

\* the function returns and main falls off its end
Return ==
    /\ pc' = "exited"
    /\ exit' = 0

NoConfig == [branch |-> None, main |-> None, origin |-> None,
             user |-> None, api_token |-> None]

NoCall == Git("none", None, TRUE, 0)

NoArgs == [issue |-> None, message |-> None, pulls |-> FALSE]

----------------------------------------------------------------------------
(* Start-up *)

Stores ==
    {[branch |-> b, api_token |-> t, user |-> u] :
        b \in {WORK, <<>>}, t \in {TOKEN, <<>>}, u \in {USER, <<>>}}

FullStores == {s \in Stores : <<>> \notin {s.branch, s.api_token, s.user}}

\* The repository before the first invocation: either variant; all required
\* keys configured or one of them missing; the working branch or main checked
\* out; on the working branch the tree clean or dirty; possibly a stale
\* review branch B1 and an open pull request for B2.
Init ==
    /\ variant \in {"git_review", "git-review"}
    /\ store \in {s \in Stores :
                    Cardinality({k \in {"branch", "api_token", "user"} :
                                    s[k] = <<>>}) <= 1}
    /\ stack \in Stacks
    /\ base = 0
    /\ upstream = 1
    /\ head \in {WORK, MainName(variant)}
    /\ dirty \in BOOLEAN
    /\ head # WORK => ~dirty
    /\ store \notin FullStores => head = WORK /\ ~dirty
    /\ \E stale \in {None, OLD} :
          /\ stale # None => store \in FullStores /\ head = WORK /\ ~dirty
          /\ local =[b \in Branches |->
                        IF b = WORK THEN Tip(stack, base)
                        ELSE IF b = MainName(variant) THEN MainCommit(base)
                        ELSE IF b = B1 THEN stale
                        ELSE None]
          /\ remote = [b \in Branches |->
                        IF b = MainName(variant) THEN MainCommit(upstream)
                        ELSE IF b = B1 THEN stale
                        ELSE None]
    /\ prs \in SUBSET {PullRequest(B2)}
    /\ prs # {} => store \in FullStores /\ head = WORK /\ ~dirty
    /\ cmd = "none"
    /\ args = NoArgs
    /\ pc = "exited"
    /\ config = NoConfig
    /\ lst = <<>>
    /\ idx = 0
    /\ calls = <<>>
    /\ out = <<>>
    /\ exit = 0
    /\ runs = 0
    /\ before = [head |-> None, tip |-> None, remote |-> remote]
    /\ prev = [cmd |-> "none", exit |-> 0, last |-> NoCall]

\* the subcommands of the variant's argument parser
Commands(v) ==
    {"new", "log", "sync", "rebase", "export"}
        \cup (IF v = "git_review" THEN {"config"} ELSE {})

\* the arguments the parser accepts for a subcommand: --message is required
\* in git-review.py and optional in git_review.py
ArgsOf(v, c) ==
    CASE c = "new" ->
            {[issue |-> i, message |-> m, pulls |-> FALSE] :
                i \in Issues,
                m \in IF v = "git-review" THEN Messages \ {None} ELSE Messages}
      [] c = "log" ->
            {[issue |-> None, message |-> None, pulls |-> p] : p \in BOOLEAN}
      [] OTHER -> {NoArgs}

\* main: the user runs a subcommand.  The first invocation is any
\* subcommand; the invocations that follow are runs of export, after an
\* export or a new, up to MaxRuns invocations in all.
Invoke(c, a) ==
    /\ pc = "exited"
    /\ runs < MaxRuns
    /\ cmd = "none" \/ (c = "export" /\ cmd \in {"export", "new"})
    /\ cmd' = c
    /\ args' = a
    /\ pc' = "load_config"
    /\ config' = NoConfig
    /\ lst' = <<>>
    /\ idx' = 0
    /\ calls' = <<>>
    /\ out' = <<>>
    /\ exit' = 0
    /\ runs' = runs + 1
    /\ before' = [head |-> head,
                  tip |-> IF store.branch = <<>> THEN None
                          ELSE local[store.branch],
                  remote |-> remote]
    /\ prev' = [cmd |-> cmd, exit |-> exit,
                last |-> IF calls = <<>> THEN NoCall ELSE calls[Len(calls)]]
    /\ UNCHANGED <<variant, store, repo>>

----------------------------------------------------------------------------
(* Configuration and the clean-state check *)

\* load_config: git config --local --get review.<key>, with a fallback
Lookup(key, value) == Call("config", <<key>>, value # <<>>, TRUE, 0, None)

\* a sync that does not call ensure_clean_state
AfterConfigSyncUnchecked(c) ==
    CASE c = "config" -> "print_config"
      [] c = "log" -> "listing"
      [] c = "sync" -> "sync_checkout_main"
      [] OTHER -> "clean"

\* where a subcommand goes once the configuration is loaded
AfterConfig(c) ==
    CASE c = "config" -> "print_config"
      [] c = "log" -> "listing"
      [] OTHER -> "clean"

\* a loader that does not require review.user
FirstMissingSkipsUser(s) ==
    IF s.branch = <<>> THEN 1
    ELSE IF s.api_token = <<>> THEN 2
    ELSE 0

\* load_all_config: the position, in the order the keys are read, of the
\* first required key that is missing or empty; 0 if none is
FirstMissing(s) ==
    IF s.branch = <<>> THEN 1
    ELSE IF s.api_token = <<>> THEN 2
    ELSE IF s.user = <<>> THEN 3
    ELSE 0

\* load_all_config / loadConfig: branch, api-token and user are read in this
\* order and the first that is empty ends the command; main and origin have
\* defaults
load_all_config ==
    /\ pc = "load_config"
    /\ LET required == <<Lookup("branch", store.branch),
                         Lookup("api-token", store.api_token),
                         Lookup("user", store.user)>>
           m == FirstMissing(store)
       IN  IF m # 0
           THEN /\ calls' = calls \o SubSeq(required, 1, m)
                /\ Fail
                /\ UNCHANGED config
           ELSE /\ calls' = calls \o required \o
                                <<Lookup("main", <<>>), Lookup("origin", <<>>)>>
                /\ config' = [branch |-> store.branch,
                              main |-> MainName(variant),
                              origin |-> DEFAULT_ORIGIN,
                              user |-> store.user,
                              api_token |-> store.api_token]
                /\ pc' = AfterConfig(cmd)
                /\ UNCHANGED exit
    /\ UNCHANGED <<variant, store, repo, cmd, args, lst, idx, out, runs, before,
                   prev>>

\* where a subcommand goes once the clean-state check has passed
AfterClean(c) ==
    CASE c = "export" -> "listing"
      [] c = "sync" -> "sync_checkout_main"
      [] c = "new" -> IF args.message = None
                      THEN "new_origin" ELSE "new_commit"
      [] c = "rebase" -> "rebase"

\* ensure_clean_state / ensureCleanState
ensure_clean_state ==
    /\ pc = "clean"
    /\ \E ok1, ok2 \in BOOLEAN :
          IF ~ok1
          THEN /\ calls' = calls \o <<Git("rev-parse", head, FALSE, 0)>>
               /\ Fail
          ELSE IF head # config.branch
          THEN /\ calls' = calls \o <<Git("rev-parse", head, TRUE, 0)>>
               /\ Fail
          ELSE IF ~ok2
          THEN /\ calls' = calls \o <<Git("rev-parse", head, TRUE, 0),
                                      Git("status", <<>>, FALSE, 0)>>
               /\ Fail
          ELSE IF dirty
          THEN /\ calls' = calls \o <<Git("rev-parse", head, TRUE, 0),
                                      Git("status", <<"M">>, TRUE, 0)>>
               /\ Fail
          ELSE /\ calls' = calls \o <<Git("rev-parse", head, TRUE, 0),
                                      Git("status", <<>>, TRUE, 0)>>
               /\ pc' = AfterClean(cmd)
               /\ UNCHANGED exit
    /\ UNCHANGED <<variant, store, repo, cmd, args, config, lst, idx, out, runs,
                   before, prev>>

----------------------------------------------------------------------------
(* The stack lister *)

Entry(commit, branch, issue, message) ==
    [commit |-> commit, branch |-> branch, issue |-> issue,
     message |-> message, pull_request |-> None]

\* git log --oneline main..branch: one line per commit, newest first
GitLogOneline(s) ==
    [i \in 1..Len(s) |->
        Reverse(s)[i].hash \o <<" ">> \o
            JoinParagraph(<<Reverse(s)[i].subject>> \o Reverse(s)[i].body)]

\* git show -s --format=%B <commit>: the lines of the commit message
GitShowBody(s, h) ==
    LET c == CHOOSE x \in {s[i] : i \in 1..Len(s)} : x.hash = h
    IN  <<c.subject>> \o c.body

\* review_branch / reviewBranch: git() strips the output of git show and
\* hands it to extract, which splits it into lines
review_branch(s, h) ==
    extractBranch(SplitLines(StripText(JoinLines(GitShowBody(s, h)))))

\* listing.extract: the parsed lines, None on the first line that does not
\* match
ParseLog(v, lines) ==
    IF \E i \in 1..Len(lines) : onelinePattern(v, lines[i]) = None
    THEN None
    ELSE [i \in 1..Len(lines) |-> onelinePattern(v, lines[i])]

\* a lister that also parses empty lines
LogLinesUnfiltered(s) == SplitLines(StripText(JoinLines(GitLogOneline(s))))

\* listing.extract, lines 323-324: the lines of the stripped output of git
\* log that are not empty
LogLines(s) ==
    SelectSeq(SplitLines(StripText(JoinLines(GitLogOneline(s)))),
              LAMBDA l : l # <<>>)

\* the entries listing builds from the parsed lines
Entries(v, s) ==
    LET parsed == ParseLog(v, LogLines(s))
    IN  [i \in 1..Len(parsed) |->
            Entry(parsed[i][1], review_branch(s, parsed[i][1]),
                  parsed[i][2], parsed[i][3])]

\* listing: bad = 0 if every git show succeeds, else the index of the
\* commit whose git show fails
listing ==
    /\ pc = "listing"
    /\ \E ok \in BOOLEAN, bad \in 0..Len(stack) :
          LET logCall == Git("log", config.main \o <<".",".">> \o config.branch,
                             ok /\ local[config.main] # None
                                /\ local[config.branch] # None, 0)
              parsed == ParseLog(variant, LogLines(stack))
              shows(n) == [i \in 1..n |->
                             Git("show", parsed[i][1], i # bad, 0)]
          IN  IF ~logCall.ok
              THEN /\ bad = 0
                   /\ calls' = calls \o <<logCall>>
                   /\ Fail
                   /\ UNCHANGED lst
              ELSE IF parsed = None
              THEN /\ bad = 0
                   /\ calls' = calls \o <<logCall>>
                   /\ Fail
                   /\ UNCHANGED lst
              ELSE IF bad # 0
              THEN /\ calls' = calls \o <<logCall>> \o shows(bad)
                   /\ Fail
                   /\ UNCHANGED lst
              ELSE /\ calls' = calls \o <<logCall>> \o shows(Len(stack))
                   /\ lst' = Entries(variant, stack)
                   /\ pc' = IF cmd = "log" /\ ~args.pulls
                            THEN "print" ELSE "origin"
                   /\ UNCHANGED exit
    /\ UNCHANGED <<variant, store, repo, cmd, args, config, idx, out, runs, before,
                   prev>>

----------------------------------------------------------------------------
(* The remote reconciler *)

\* remote_origin / origin: git remote show -n <origin> and repoPattern; r is
\* "ok", "fail" (git exits non-zero) or "noparse" (no Fetch URL line matches)
remote_origin(r, e, next) ==
    /\ calls' = calls \o <<Git("remote show", config.origin, r # "fail", e)>>
    /\ IF r = "ok"
       THEN pc' = next /\ UNCHANGED exit
       ELSE Fail

\* augmented_listing, line 361: org = remote_origin(config)
listing_origin ==
    /\ pc = "origin"
    /\ \E r \in {"ok", "fail", "noparse"} : remote_origin(r, 0, "pulls")
    /\ UNCHANGED <<variant, store, repo, cmd, args, config, lst, idx, out, runs,
                   before, prev>>

\* a look-up that takes any open pull request, whatever its head label
as_dict_get_any(pulls, label) ==
    IF pulls # {} THEN (CHOOSE p \in pulls : TRUE).url ELSE None

\* as_dict.get(org[0] + ":" + branch): the URL of the pull request with that
\* head label, None if there is none
as_dict_get(pulls, label) ==
    IF \E p \in pulls : p.label = label
    THEN (CHOOSE p \in pulls : p.label = label).url
    ELSE None

\* a reconciler that attaches no pull request
AugmentNothing(entries, pulls) == entries

\* augmented_listing, lines 368-370: attach the pull requests
Augment(entries, pulls) ==
    [i \in 1..Len(entries) |->
        IF entries[i].branch # None
        THEN [entries[i] EXCEPT
                !.pull_request = as_dict_get(pulls, Label(OWNER, entries[i].branch))]
        ELSE entries[i]]

\* augmented_listing, lines 362-371: GET pulls, expected status 200, then the
\* loop of export_command starts.  The call is recorded with the list of open
\* pull requests the platform answered with.
augmented_listing ==
    /\ pc = "pulls"
    /\ \E ok \in BOOLEAN :
          /\ calls' = calls \o
                <<Call("GET pulls", <<>>, ok, FALSE, 0, IF ok THEN prs ELSE {})>>
          /\ IF ~ok
             THEN Fail /\ UNCHANGED <<lst, idx>>
             ELSE /\ lst' = Augment(lst, prs)
                  /\ IF cmd = "log"
                     THEN pc' = "print" /\ UNCHANGED <<idx, exit>>
                     ELSE IF lst = <<>>
                     THEN Return /\ UNCHANGED idx
                     ELSE pc' = "export" /\ idx' = 1 /\ UNCHANGED exit
    /\ UNCHANGED <<variant, store, repo, cmd, args, config, out, runs, before,
                   prev>>

----------------------------------------------------------------------------
(* The export orchestrator *)

\* a loop that ends at the first entry it has dealt with
NextEntryEndsLoop == Return /\ UNCHANGED idx

\* export_command: the for loop goes to the next entry, or ends
NextEntry ==
    IF idx = Len(lst)
    THEN Return /\ UNCHANGED idx
    ELSE pc' = "export" /\ idx' = idx + 1 /\ UNCHANGED exit

\* a draft test that forgets lower()
IsWipCaseSensitive(entry) == StartsWith(entry.message, WIP_TAG)

\* entry.message.lower().startswith(WIP_TAG)
IsWip(entry) == StartsWith(Lower(entry.message), WIP_TAG)

\* an export without the test for a review branch
EligibleWithoutBranch(entry) == ~IsWip(entry)

\* export, lines 414-424: neither of the two early returns is taken
Eligible(entry) == entry.branch # None /\ ~IsWip(entry)

Report(e, what) == [entry |-> e, what |-> what]

\* export, lines 414-418: no review branch
export_skip_no_branch ==
    /\ pc = "export"
    /\ lst[idx].branch = None
    /\ out' = out \o <<Report(idx, "skipping, commit has no review branch")>>
    /\ NextEntry
    /\ UNCHANGED <<variant, store, repo, cmd, args, config, lst, calls, runs,
                   before, prev>>

\* export, lines 420-424: work in progress
export_skip_wip ==
    /\ pc = "export"
    /\ lst[idx].branch # None
    /\ IsWip(lst[idx])
    /\ out' = out \o <<Report(idx, "skipping, commit is work in progress")>>
    /\ NextEntry
    /\ UNCHANGED <<variant, store, repo, cmd, args, config, lst, calls, runs,
                   before, prev>>

\* git branch -D <b> succeeds when b exists and is not checked out
CanDelete(b) == local[b] # None /\ head # b

\* export, lines 426-428: git branch -D <branch>, failure ignored
export_delete_stale ==
    /\ pc = "export"
    /\ Eligible(lst[idx])
    /\ \E ok \in BOOLEAN :
          LET b == lst[idx].branch
              done == ok /\ CanDelete(b)
          IN  /\ out' = out \o <<Report(idx, "exporting...")>>
              /\ calls' = calls \o <<Call("branch -D", b, done, TRUE, idx, None)>>
              /\ local' = IF done THEN [local EXCEPT ![b] = None] ELSE local
              /\ pc' = "create"
    /\ UNCHANGED <<variant, store, head, remote, dirty, stack, base,
                   upstream, prs, cmd, args, config, lst, idx, exit, runs, before,
                   prev>>

\* export, line 431: git checkout -b <branch> <commit>
export_create ==
    /\ pc = "create"
    /\ \E ok \in BOOLEAN :
          LET b == lst[idx].branch
              done == ok /\ local[b] = None
          IN  /\ calls' = calls \o <<Git("checkout -b", b, done, idx)>>
              /\ IF done
                 THEN /\ local' = [local EXCEPT ![b] = lst[idx].commit]
                      /\ head' = b
                      /\ pc' = "push"
                      /\ UNCHANGED exit
                 ELSE Fail /\ UNCHANGED <<local, head>>
    /\ UNCHANGED <<variant, store, remote, dirty, stack, base, upstream, prs,
                   cmd, args, config, lst, idx, out, runs, before, prev>>

\* a push that leaves an existing remote branch as it is
PushedUnlessPresent(r, b, c) == IF r[b] = None THEN [r EXCEPT ![b] = c] ELSE r

\* the remote after git push --force of branch b at commit c
Pushed(r, b, c) == [r EXCEPT ![b] = c]

\* export, line 434: git push --force --set-upstream <origin> <branch>;
\* next is the step that follows
export_push_then(next) ==
    /\ pc = "push"
    /\ \E ok \in BOOLEAN :
          LET b == lst[idx].branch
              done == ok /\ local[b] # None
          IN  /\ calls' = calls \o <<Git("push", b, done, idx)>>
              /\ IF done
                 THEN /\ remote' = Pushed(remote, b, local[b])
                      /\ pc' = next
                      /\ UNCHANGED exit
                 ELSE Fail /\ UNCHANGED remote
    /\ UNCHANGED <<variant, store, head, local, dirty, stack, base, upstream,
                   prs, cmd, args, config, lst, idx, out, runs, before, prev>>

\* an export that deletes the review branch without leaving it first
export_push_then_delete == export_push_then("delete")

\* export, lines 434-437: the push is followed by the checkout
export_push == export_push_then("checkout")

\* an export that goes back to the integration branch
export_checkout_main ==
    /\ pc = "checkout"
    /\ \E ok \in BOOLEAN :
          LET done == ok /\ local[config.main] # None
          IN  /\ calls' = calls \o <<Git("checkout", config.branch, done, idx)>>
              /\ IF done
                 THEN /\ head' = config.main
                      /\ pc' = "delete"
                      /\ UNCHANGED exit
                 ELSE Fail /\ UNCHANGED head
    /\ UNCHANGED <<variant, store, local, remote, dirty, stack, base,
                   upstream, prs, cmd, args, config, lst, idx, out, runs, before,
                   prev>>

\* export, line 437: git checkout <working branch>
export_checkout ==
    /\ pc = "checkout"
    /\ \E ok \in BOOLEAN :
          LET done == ok /\ local[config.branch] # None
          IN  /\ calls' = calls \o <<Git("checkout", config.branch, done, idx)>>
              /\ IF done
                 THEN /\ head' = config.branch
                      /\ pc' = "delete"
                      /\ UNCHANGED exit
                 ELSE Fail /\ UNCHANGED head
    /\ UNCHANGED <<variant, store, local, remote, dirty, stack, base,
                   upstream, prs, cmd, args, config, lst, idx, out, runs, before,
                   prev>>

\* export, lines 440-444: git branch -D <branch>, then the decision to
\* create a pull request
export_delete ==
    /\ pc = "delete"
    /\ \E ok \in BOOLEAN :
          LET b == lst[idx].branch
              done == ok /\ CanDelete(b)
          IN  /\ calls' = calls \o <<Git("branch -D", b, done, idx)>>
              /\ IF ~done
                 THEN Fail /\ UNCHANGED <<local, out, idx>>
                 ELSE /\ local' = [local EXCEPT ![b] = None]
                      /\ IF lst[idx].pull_request = None
                         THEN /\ out' = out \o
                                   <<Report(idx, "creating pull request...")>>
                              /\ pc' = "pr_origin"
                              /\ UNCHANGED <<idx, exit>>
                         ELSE NextEntry /\ UNCHANGED out
    /\ UNCHANGED <<variant, store, head, remote, dirty, stack, base,
                   upstream, prs, cmd, args, config, lst, runs, before, prev>>

\* create_pull_request, line 399: org = remote_origin(config)
create_pull_request_origin ==
    /\ pc = "pr_origin"
    /\ \E r \in {"ok", "fail", "noparse"} : remote_origin(r, idx, "pr_post")
    /\ UNCHANGED <<variant, store, repo, cmd, args, config, lst, idx, out, runs,
                   before, prev>>

PleaseReview ==
    <<"P","l","e","a","s","e"," ","r","e","v","i","e","w"," ","o","n","l","y",
      " ","t","h","e"," ","b","o","t","t","o","m","-","m","o","s","t"," ",
      "c","o","m","m","i","t">>

\* the body of the pull request: "Closes #<issue>" if the entry has an issue,
\* else ""; the fixed text in git-review.py
PrBody(v, entry) ==
    IF v = "git-review" THEN PleaseReview
    ELSE IF entry.issue # <<>> /\ entry.issue # None
         THEN <<"C","l","o","s","e","s"," ","#">> \o entry.issue
         ELSE <<>>

\* a payload with head and base exchanged
PayloadHeadBaseSwapped(v, cfg, entry) ==
    <<entry.message, PrBody(v, entry), cfg.main, entry.branch>>

\* the payload of create_pull_request: <<title, body, head, base>>
Payload(v, cfg, entry) ==
    <<entry.message, PrBody(v, entry), entry.branch, cfg.main>>

\* create_pull_request, lines 400-409: POST pulls, expected status 201.  The
\* platform refuses a second open pull request for the same head.
create_pull_request ==
    /\ pc = "pr_post"
    /\ \E ok \in BOOLEAN :
          LET b == lst[idx].branch
              done == ok /\ as_dict_get(prs, Label(OWNER, b)) = None
          IN  /\ calls' = calls \o
                    <<Call("POST pulls", b, done, FALSE, idx,
                           Payload(variant, config, lst[idx]))>>
              /\ IF done
                 THEN /\ prs' = prs \cup {PullRequest(b)}
                      /\ NextEntry
                 ELSE Fail /\ UNCHANGED <<prs, idx>>
    /\ UNCHANGED <<variant, store, head, local, remote, dirty, stack, base,
                   upstream, cmd, args, config, lst, out, runs, before, prev>>

----------------------------------------------------------------------------
(* new *)

\* new_command, lines 265-267: no --message, the title of the issue is
\* fetched; first org = remote_origin(config)
new_origin ==
    /\ pc = "new_origin"
    /\ \E r \in {"ok", "fail", "noparse"} : remote_origin(r, 0, "new_issue")
    /\ UNCHANGED <<variant, store, repo, cmd, args, config, lst, idx, out,
                   runs, before, prev>>

\* new_command, line 267: GET issues/<issue>, expected status 200; the
\* platform answers 404 for an issue that is not a number
new_issue ==
    /\ pc = "new_issue"
    /\ \E ok \in BOOLEAN :
          LET done == ok /\ \A i \in 1..Len(args.issue) : IsDigit(args.issue[i])
          IN  /\ calls' = calls \o <<Git("GET issue", args.issue, done, 0)>>
              /\ IF done
                 THEN /\ args' = [args EXCEPT !.message = IssueTitle]
                      /\ pc' = "new_commit"
                      /\ UNCHANGED exit
                 ELSE Fail /\ UNCHANGED args
    /\ UNCHANGED <<variant, store, repo, cmd, config, lst, idx, out, runs,
                   before, prev>>

\* the branch name new embeds: <issue>-<tag>
NewBranch(issue, tag) == issue \o <<"-">> \o tag

\* new_command, lines 277-280: the text handed to git commit:
\* "wip: <issue>: <message>", an empty line, the trailer
NewMessage(issue, message, tag) ==
    WIP_TAG \o <<":", " ">> \o issue \o <<":", " ">> \o message
        \o <<"\n", "\n">> \o META_VAR \o <<"=">> \o NewBranch(issue, tag)
        \o <<"\n">>

\* the commit git makes of that text
NewCommit(issue, message, tag) ==
    LET ls == Cleanup(SplitLines(NewMessage(issue, message, tag)))
    IN  Commit(NewHash, Head(ls), Tail(ls))

\* new_command, lines 271-281: git commit --allow-empty -F -
new_command ==
    /\ pc = "new_commit"
    /\ \E ok \in BOOLEAN, tag \in Tags :
          /\ Len(tag) = BRANCH_TAG_LENGTH
          /\ calls' = calls \o
                <<Git("commit", NewBranch(args.issue, tag), ok, 0)>>
          /\ IF ok
             THEN /\ stack' = Append(stack,
                                NewCommit(args.issue, args.message, tag))
                  /\ local' = [local EXCEPT ![head] = NewHash]
                  /\ Return
             ELSE Fail /\ UNCHANGED <<stack, local>>
    /\ UNCHANGED <<variant, store, head, remote, dirty, base, upstream, prs,
                   cmd, args, config, lst, idx, out, runs, before, prev>>

----------------------------------------------------------------------------
(* sync and rebase *)

\* a sync that does not pull
sync_checkout_main_only ==
    /\ pc = "sync_checkout_main"
    /\ \E ok \in BOOLEAN :
          LET done == ok /\ local[config.main] # None
          IN  /\ calls' = calls \o <<Git("checkout", config.main, done, 0)>>
              /\ IF done
                 THEN head' = config.main /\ pc' = "sync_checkout_branch"
                      /\ UNCHANGED exit
                 ELSE Fail /\ UNCHANGED head
    /\ UNCHANGED <<variant, store, local, remote, dirty, stack, base,
                   upstream, prs, cmd, args, config, lst, idx, out, runs,
                   before, prev>>

\* sync_command, line 249: git checkout <main>
sync_checkout_main ==
    /\ pc = "sync_checkout_main"
    /\ \E ok \in BOOLEAN :
          LET done == ok /\ local[config.main] # None
          IN  /\ calls' = calls \o <<Git("checkout", config.main, done, 0)>>
              /\ IF done
                 THEN head' = config.main /\ pc' = "sync_pull" /\ UNCHANGED exit
                 ELSE Fail /\ UNCHANGED head
    /\ UNCHANGED <<variant, store, local, remote, dirty, stack, base,
                   upstream, prs, cmd, args, config, lst, idx, out, runs,
                   before, prev>>

\* sync_command, line 250: git pull --prune, main follows the remote
sync_pull ==
    /\ pc = "sync_pull"
    /\ \E ok \in BOOLEAN :
          LET done == ok /\ remote[head] # None
          IN  /\ calls' = calls \o <<Git("pull", head, done, 0)>>
              /\ IF done
                 THEN /\ local' = [local EXCEPT ![head] = remote[head]]
                      /\ pc' = "sync_checkout_branch"
                      /\ UNCHANGED exit
                 ELSE Fail /\ UNCHANGED local
    /\ UNCHANGED <<variant, store, head, remote, dirty, stack, base,
                   upstream, prs, cmd, args, config, lst, idx, out, runs,
                   before, prev>>

\* sync_command, line 251: git checkout <working branch>
sync_checkout_branch ==
    /\ pc = "sync_checkout_branch"
    /\ \E ok \in BOOLEAN :
          LET done == ok /\ local[config.branch] # None
          IN  /\ calls' = calls \o <<Git("checkout", config.branch, done, 0)>>
              /\ IF done
                 THEN head' = config.branch /\ pc' = "sync_rebase"
                      /\ UNCHANGED exit
                 ELSE Fail /\ UNCHANGED head
    /\ UNCHANGED <<variant, store, local, remote, dirty, stack, base,
                   upstream, prs, cmd, args, config, lst, idx, out, runs,
                   before, prev>>

DETACHED == <<"H","E","A","D">>

\* a rebased commit is a new commit with the same message
Rebased(c) == [c EXCEPT !.hash = <<"r">> \o @]

\* sync_command, line 252: git rebase <main>.  r is "ok", "error" (git exits
\* non-zero and changes nothing) or "conflict" (the rebase stops half way,
\* HEAD detached and the tree dirty)
sync_rebase ==
    /\ pc = "sync_rebase"
    /\ \E r \in {"ok", "error", "conflict"} :
          LET moved == local[config.main] # MainCommit(base)
              onto == IF local[config.main] = MainCommit(upstream)
                      THEN upstream ELSE base
              rewritten == IF moved
                           THEN [i \in 1..Len(stack) |-> Rebased(stack[i])]
                           ELSE stack
          IN  /\ calls' = calls \o <<Git("rebase", config.main, r = "ok", 0)>>
              /\ IF r = "ok"
                 THEN /\ stack' = rewritten
                      /\ base' = onto
                      /\ local' = [local EXCEPT ![head] = Tip(rewritten, onto)]
                      /\ Return
                      /\ UNCHANGED <<head, dirty>>
                 ELSE IF r = "conflict" /\ moved /\ stack # <<>>
                 THEN /\ head' = DETACHED
                      /\ dirty' = TRUE
                      /\ Fail
                      /\ UNCHANGED <<stack, base, local>>
                 ELSE /\ r = "error"
                      /\ Fail
                      /\ UNCHANGED <<head, dirty, stack, base, local>>
    /\ UNCHANGED <<variant, store, remote, upstream, prs, cmd, args, config,
                   lst, idx, out, runs, before, prev>>

\* rebase_command, line 237: git rebase --interactive replaces the process;
\* what the user does in the editor is not the tool's doing
rebase_command ==
    /\ pc = "rebase"
    /\ \E ok \in BOOLEAN :
          /\ calls' = calls \o <<Git("rebase -i", config.main, ok, 0)>>
          /\ pc' = "exited"
          /\ exit' = IF ok THEN 0 ELSE 1
    /\ UNCHANGED <<variant, store, repo, cmd, args, config, lst, idx, out,
                   runs, before, prev>>

----------------------------------------------------------------------------
(* log and config *)

Row(e) == [entry |-> 0, what |-> "row", row |-> e]

\* a log that writes the rows in the order of the listing
log_command_unreversed ==
    /\ pc = "print"
    /\ out' = [i \in 1..Len(lst) |-> Row(lst[i])]
    /\ Return
    /\ UNCHANGED <<variant, store, repo, cmd, args, config, lst, idx, calls,
                   runs, before, prev>>

\* log_command, line 387: the rows are written in reversed order
log_command ==
    /\ pc = "print"
    /\ out' = [i \in 1..Len(lst) |-> Row(Reverse(lst)[i])]
    /\ Return
    /\ UNCHANGED <<variant, store, repo, cmd, args, config, lst, idx, calls,
                   runs, before, prev>>

\* config_command, line 225
config_command ==
    /\ pc = "print_config"
    /\ out' = <<[entry |-> 0, what |-> "config", row |-> config]>>
    /\ Return
    /\ UNCHANGED <<variant, store, repo, cmd, args, config, lst, idx, calls,
                   runs, before, prev>>

----------------------------------------------------------------------------

Next ==
    \/ \E c \in Commands(variant) : \E a \in ArgsOf(variant, c) : Invoke(c, a)
    \/ load_all_config
    \/ ensure_clean_state
    \/ listing
    \/ listing_origin
    \/ augmented_listing
    \/ export_skip_no_branch
    \/ export_skip_wip
    \/ export_delete_stale
    \/ export_create
    \/ export_push
    \/ export_checkout
    \/ export_delete
    \/ create_pull_request_origin
    \/ create_pull_request
    \/ new_origin
    \/ new_issue
    \/ new_command
    \/ sync_checkout_main
    \/ sync_pull
    \/ sync_checkout_branch
    \/ sync_rebase
    \/ rebase_command
    \/ log_command
    \/ config_command

Spec == Init /\ [][Next]_vars

----------------------------------------------------------------------------
(* Properties *)

\* the external calls issued for entry e of the list, in the order issued
EntryCalls(e) == SelectSeq(calls, LAMBDA c : c.entry = e)

\* the subject line of the commit an entry was built from
SubjectOf(entry) ==
    (CHOOSE c \in {stack[i] : i \in 1..Len(stack)} : c.hash = entry.commit).subject

Exporting == cmd = "export" /\ lst # <<>>

\* this invocation has finished with entry e
Finished(e) == idx > e \/ (pc = "exited" /\ exit = 0)

StepNames ==
    <<"branch -D", "checkout -b", "push", "checkout", "branch -D",
      "remote show", "POST pulls">>

StepArg(e, k) ==
    IF k = 4 THEN config.branch
    ELSE IF k = 6 THEN config.origin
    ELSE lst[e].branch

\* C1: for every entry export treats as eligible the calls are issued in
\* the order delete local B, create and check out B at the commit, force-push
\* B, check out the working branch, delete local B, and then the creation of
\* the pull request (after the look-up of the remote), each only after the
\* one before it succeeded (the first delete may fail); the second delete is
\* never issued while B is checked out.
C1_StepOrder ==
    Exporting =>
        /\ \A e \in 1..Len(lst) :
              LET cs == EntryCalls(e)
              IN  /\ Len(cs) <= Len(StepNames)
                  /\ cs # <<>> => Eligible(lst[e])
                  /\ \A k \in 1..Len(cs) :
                        /\ cs[k].name = StepNames[k]
                        /\ cs[k].arg = StepArg(e, k)
                        /\ k > 2 => cs[k - 1].ok
        /\ pc = "delete" => head = config.branch /\ head # lst[idx].branch

\* an eligible entry went through all six steps
C1_Witness ==
    /\ Exporting
    /\ \E e \in 1..Len(lst) :
          /\ Len(EntryCalls(e)) = Len(StepNames)
          /\ \A k \in 1..Len(StepNames) : EntryCalls(e)[k].ok

\* the subject of the commit begins with the draft tag, in any letter case
DraftSubject(entry) == StartsWith(Lower(SubjectOf(entry)), WIP_TAG)

\* C2: in an export run no branch-create, branch-delete, checkout, push or
\* pull-request creation call is issued for an entry whose subject begins
\* with the draft tag "wip" in any letter case.
C2_DraftNeverExported ==
    Exporting =>
        \A i \in 1..Len(calls) :
            calls[i].entry # 0 => ~DraftSubject(lst[calls[i].entry])

\* an export run ended normally that skipped an upper-case draft and
\* exported another entry
C2_Witness ==
    /\ Exporting
    /\ pc = "exited"
    /\ exit = 0
    /\ \E e \in 1..Len(lst) :
          /\ DraftSubject(lst[e])
          /\ ~StartsWith(SubjectOf(lst[e]), WIP_TAG)
          /\ \E i \in 1..Len(out) : out[i].entry = e
    /\ \E i \in 1..Len(calls) : calls[i].name = "push" /\ calls[i].ok

\* no call of this invocation failed, apart from calls with a fallback
NoCallFailed == \A i \in 1..Len(calls) : calls[i].ok \/ calls[i].fallback

LastCall == calls[Len(calls)]

\* the invocation before this one was an export that stopped at a failed push
AfterFailedPush ==
    /\ cmd = "export"
    /\ prev.cmd = "export"
    /\ prev.exit = 1
    /\ prev.last.name = "push"
    /\ ~prev.last.ok

\* C3: after an export that stopped at a failed force-push, the next export
\* run over the same stack, with nothing done in between, deletes the branch
\* left behind in its step 1 and goes on to export the entry.
C3_NextRunRecovers ==
    AfterFailedPush /\ pc = "exited" /\ NoCallFailed =>
        /\ exit = 0
        /\ \E i \in 1..Len(calls) :
              /\ calls[i].name = "branch -D"
              /\ calls[i].fallback
              /\ calls[i].arg = prev.last.arg
              /\ calls[i].ok
        /\ \E i \in 1..Len(calls) :
              /\ calls[i].name = "push"
              /\ calls[i].arg = prev.last.arg
              /\ calls[i].ok

\* this export run ended because a step of some entry failed
StepFailed ==
    /\ cmd = "export"
    /\ pc = "exited"
    /\ exit = 1
    /\ calls # <<>>
    /\ LastCall.entry # 0
    /\ ~LastCall.ok

\* C4: whenever an export run ends because an external step failed, the
\* working branch is still the checked-out branch and still points at the
\* commit it pointed at before the run.
C4_WorkingBranchKept ==
    StepFailed =>
        /\ head = config.branch
        /\ local[config.branch] = before.tip

\* the clean state was observed before the i-th call: the current branch was
\* read as the working branch and the porcelain status as empty
CleanObserved(i) ==
    \E j, k \in 1..(i - 1) :
        /\ j < k
        /\ calls[j].name = "rev-parse"
        /\ calls[j].ok
        /\ calls[j].arg = config.branch
        /\ calls[k].name = "status"
        /\ calls[k].ok
        /\ calls[k].arg = <<>>

\* one of the two checks of the clean state failed
CheckFailed ==
    \E j \in 1..Len(calls) :
        \/ calls[j].name = "rev-parse"
              /\ (~calls[j].ok \/ calls[j].arg # config.branch)
        \/ calls[j].name = "status"
              /\ (~calls[j].ok \/ calls[j].arg # <<>>)

\* C5: in new, sync, rebase and export no mutating external call is issued
\* unless, earlier in the same invocation, the current branch was observed
\* to be the working branch and the porcelain status to be empty; if either
\* check fails the command exits with status 1 and has issued no mutating
\* call.
C5_CleanBeforeMutation ==
    cmd \in {"new", "sync", "rebase", "export"} =>
        /\ \A i \in 1..Len(calls) :
              calls[i].name \in Mutating => CleanObserved(i)
        /\ CheckFailed =>
              /\ pc = "exited"
              /\ exit = 1
              /\ \A i \in 1..Len(calls) : calls[i].name \notin Mutating

\* a sync ran to its end, all four of its mutating calls issued
C5_Witness ==
    /\ cmd = "sync"
    /\ pc = "exited"
    /\ exit = 0
    /\ Cardinality({i \in 1..Len(calls) : calls[i].name \in Mutating}) = 4

\* the names of a sequence of calls
Names(cs) == [k \in 1..Len(cs) |-> cs[k].name]

\* C6: with c1 = "wip: T-1: fix x" (trailer B1) and c2 = "T-2: fix y"
\* (trailer B2) on the range, listing returns the two entries in the order
\* [c1, c2] with branches B1 and B2; export skips c1 as a draft and for c2
\* deletes local B2 (best effort), creates B2 at c2, force-pushes B2, checks
\* out the working branch, deletes local B2 and, if no open pull request is
\* labelled owner:B2, creates one with head B2 and base the integration
\* branch.
C6_Scenario ==
    /\ cmd = "export"
    /\ runs = 1
    /\ stack = <<c2, c1>>
    /\ pc = "exited"
    /\ NoCallFailed
    /\ ~CheckFailed
    =>
    /\ exit = 0
    /\ Len(lst) = 2
    /\ lst[1].commit = c1.hash /\ lst[1].branch = B1
    /\ lst[2].commit = c2.hash /\ lst[2].branch = B2
    /\ EntryCalls(1) = <<>>
    /\ \E i \in 1..Len(out) :
          out[i] = Report(1, "skipping, commit is work in progress")
    /\ LET cs == EntryCalls(2)
       IN  IF lst[2].pull_request = None
           THEN /\ Names(cs) = StepNames
                /\ cs[7].payload[3] = B2
                /\ cs[7].payload[4] = config.main
           ELSE Names(cs) = SubSeq(StepNames, 1, 5)

\* entry e was reported as skipped
Skipped(e) ==
    \E i \in 1..Len(out) :
        /\ out[i].entry = e
        /\ out[i].what \in {"skipping, commit has no review branch",
                            "skipping, commit is work in progress"}

\* entry e went through the five branch steps
Exported(e) ==
    /\ Len(EntryCalls(e)) >= 5
    /\ EntryCalls(e)[5].ok

\* C7: an entry skipped for ineligibility is reported and does not stop the
\* export run: the entries after it are still processed, and the eligible
\* ones among them are exported.
C7_SkipContinues ==
    Exporting =>
        \A e \in 1..Len(lst) :
            /\ ~Eligible(lst[e]) /\ Finished(e) => Skipped(e)
            /\ Skipped(e) =>
                  /\ ~Eligible(lst[e])
                  /\ e < Len(lst) => idx > e
                  /\ pc = "exited" /\ exit = 0 =>
                        \A j \in (e + 1)..Len(lst) :
                            IF Eligible(lst[j]) THEN Exported(j) ELSE Skipped(j)

\* an export run ended normally in which an entry was skipped and a later
\* one exported
C7_Witness ==
    /\ Exporting
    /\ pc = "exited"
    /\ exit = 0
    /\ \E e, j \in 1..Len(lst) : e < j /\ Skipped(e) /\ Exported(j)

\* C8: if an external call made during export fails and its call site
\* declared no fallback, the command exits with status 1, the call is not
\* retried, and no further external call is issued.
C8_FailureIsFatal ==
    cmd = "export" =>
        \A i \in 1..Len(calls) :
            ~calls[i].ok /\ ~calls[i].fallback =>
                /\ i = Len(calls)
                /\ pc = "exited"
                /\ exit = 1

\* the push of the first entry failed while an eligible entry was still to come
C8_Witness ==
    /\ Exporting
    /\ Len(lst) >= 2
    /\ Eligible(lst[2])
    /\ LastCall.name = "push"
    /\ LastCall.entry = 1
    /\ ~LastCall.ok

\* the pull-request creation calls issued for entry e
Posts(e) == SelectSeq(calls, LAMBDA c : c.entry = e /\ c.name = "POST pulls")

\* text t occurs in text s
Occurs(t, s) ==
    \E k \in 1..(Len(s) - Len(t) + 1) : SubSeq(s, k, k + Len(t) - 1) = t

\* C9: for each eligible entry whose branch steps 1-5 succeeded, export
\* issues exactly one pull-request creation call when reconciliation found
\* no open pull request for its review branch, and none when it found one;
\* the pull request has title = the entry's message, head = its review
\* branch, base = the integration branch, and a body that references the
\* entry's issue when it has one.
C9_PullRequestCreation ==
    Exporting =>
        \A e \in 1..Len(lst) :
            /\ Len(Posts(e)) <= 1
            /\ Posts(e) # <<>> =>
                  /\ Exported(e)
                  /\ lst[e].pull_request = None
                  /\ Posts(e)[1].payload[1] = lst[e].message
                  /\ Posts(e)[1].payload[3] = lst[e].branch
                  /\ Posts(e)[1].payload[4] = MainName(variant)
                  /\ lst[e].issue # None =>
                        Occurs(lst[e].issue, Posts(e)[1].payload[2])
            /\ Eligible(lst[e]) /\ Finished(e) =>
                  Len(Posts(e)) = IF lst[e].pull_request = None THEN 1 ELSE 0

\* an export run ended normally that created a pull request for an entry with
\* an issue and created none for an entry that had one
C9_Witness ==
    /\ Exporting
    /\ pc = "exited"
    /\ exit = 0
    /\ \E e \in 1..Len(lst) :
          /\ lst[e].issue # None
          /\ Posts(e) # <<>>
          /\ Posts(e)[1].ok
    /\ \E e \in 1..Len(lst) :
          /\ Exported(e)
          /\ lst[e].pull_request # None

\* the entry export is about to look at has no review branch
AtNoBranch == pc = "export" /\ lst[idx].branch = None

\* C10: export of an entry that has no review-branch name is skipped with a
\* reported reason and issues no external call for that entry; the local
\* repository and the remote are left unchanged by it.
C10_NoBranchNoEffect ==
    [][AtNoBranch =>
          /\ out' = out \o
                <<Report(idx, "skipping, commit has no review branch")>>
          /\ calls' = calls
          /\ repo' = repo
          /\ exit' = exit]_vars

\* an entry without review branch was skipped, after an entry that was
\* exported
C10_Witness ==
    /\ Exporting
    /\ \E e \in 1..Len(lst) :
          /\ lst[e].branch = None
          /\ Skipped(e)
          /\ EntryCalls(e) = <<>>
          /\ \E j \in 1..(e - 1) : Exported(j)

\* the fetches of the list of open pull requests in this invocation
Fetches == SelectSeq(calls, LAMBDA c : c.name = "GET pulls")

\* the open pull requests of the fetched list whose head label is owner:branch
Correlated(fetched, branch) ==
    {p \in fetched : p.label = OWNER \o <<":">> \o branch}

\* C11: after reconciliation every listed entry's pull-request field is the
\* URL of the fetched open pull request whose head label is owner:branch when
\* the entry has a branch and there is such a pull request, and is unset
\* otherwise, without error; the list of open pull requests is fetched
\* exactly once per invocation.
C11_Reconciliation ==
    Fetches # <<>> =>
        /\ Len(Fetches) = 1
        /\ Fetches[1].ok =>
              /\ LastCall.name = "GET pulls" => ~(pc = "exited" /\ exit = 1)
              /\ \A e \in 1..Len(lst) :
                    LET found == IF lst[e].branch = None THEN {}
                                 ELSE Correlated(Fetches[1].payload,
                                                 lst[e].branch)
                    IN  IF found = {}
                        THEN lst[e].pull_request = None
                        ELSE \E p \in found : lst[e].pull_request = p.url

\* a reconciliation attached the pull request of B2 to the entry with branch
\* B2 and left other entries, with and without branch, unset
C11_Witness ==
    /\ Fetches # <<>>
    /\ Fetches[1].ok
    /\ \E e \in 1..Len(lst) :
          lst[e].branch = B2 /\ lst[e].pull_request = Url(B2)
    /\ \E e \in 1..Len(lst) :
          lst[e].branch \notin {None, B2} /\ lst[e].pull_request = None

\* a required configuration key is missing or empty
KeyMissing == \E k \in {"branch", "api_token", "user"} : store[k] = <<>>

\* C12: if a required configuration key (branch, api-token, user) is missing
\* or empty, every command exits with status 1 before any mutating action,
\* having issued no external call other than configuration look-ups.
C12_MissingKeyIsFatal ==
    KeyMissing /\ cmd # "none" =>
        /\ \A i \in 1..Len(calls) : calls[i].name = "config"
        /\ pc \in {"load_config", "exited"}
        /\ pc = "exited" => exit = 1
        /\ head = before.head
        /\ out = <<>>

\* an export stopped at the missing api-token, after two look-ups
C12_Witness ==
    /\ store.api_token = <<>>
    /\ cmd = "export"
    /\ pc = "exited"
    /\ exit = 1
    /\ Len(calls) = 2

\* the successful pushes of branch b in this invocation, in the order issued
Pushes(b) ==
    SelectSeq(calls, LAMBDA c : c.name = "push" /\ c.ok /\ c.arg = b)

\* C13: once the push of an entry has succeeded the remote branch named by
\* the entry's review branch points at the entry's commit, whatever it
\* pointed at before; when several pushes target the same name the remote
\* branch is at the commit of the last one pushed.
C13_LastWriterWins ==
    Exporting =>
        \A b \in Branches :
            Pushes(b) # <<>> =>
                remote[b] = lst[Pushes(b)[Len(Pushes(b))].entry].commit

\* two entries with the same review branch were pushed one after the other,
\* the second push replacing the commit the first had put there
C13_Witness ==
    /\ Exporting
    /\ \E b \in Branches :
          /\ Len(Pushes(b)) = 2
          /\ Pushes(b)[1].entry # Pushes(b)[2].entry
          /\ lst[Pushes(b)[1].entry].commit # lst[Pushes(b)[2].entry].commit
          /\ remote[b] = lst[Pushes(b)[2].entry].commit

\* the log command has written its table
Logged == cmd = "log" /\ pc = "exited" /\ exit = 0

\* C14, as claimed: listing returns the entries oldest first, and the first
\* row the log command shows is the newest commit.
C14_OldestFirstListing ==
    /\ lst # <<>> => \A i \in 1..Len(lst) : lst[i].commit = stack[i].hash
    /\ Logged /\ out # <<>> => out[1].row.commit = stack[Len(stack)].hash

\* C14, amended: listing returns the entries newest first, in the order of
\* the one-line log, and the log command, which displays the reversed
\* listing, shows the oldest commit in the first row and the newest in the
\* last.
C14_NewestFirstListing ==
    /\ lst # <<>> =>
          /\ Len(lst) = Len(stack)
          /\ \A i \in 1..Len(lst) :
                lst[i].commit = stack[Len(stack) + 1 - i].hash
    /\ Logged =>
          /\ Len(out) = Len(stack)
          /\ \A i \in 1..Len(out) : out[i].row.commit = stack[i].hash

\* a log of a stack of two commits: the oldest in the first row
C14_Witness ==
    /\ Logged
    /\ Len(out) = 2
    /\ out[1].row.commit = stack[1].hash
    /\ out[2].row.commit = stack[2].hash
    /\ lst[1].commit = stack[2].hash

\* new has made its commit
Committed == cmd = "new" /\ pc = "exited" /\ exit = 0

\* C15: for every issue identifier and message passed to new, the decoder
\* used by listing, applied to the commit message new built, yields the
\* branch name <issue>-<tag> that new encoded.
C15_RoundTrip ==
    Committed => review_branch(stack, NewHash) = LastCall.arg

\* the lines of the message of the commit an entry was built from
MessageLines(entry) ==
    LET c == CHOOSE c \in {stack[i] : i \in 1..Len(stack)} :
                    c.hash = entry.commit
    IN  <<c.subject>> \o c.body

\* the positions of the lines that begin with PR_BRANCH=
TrailerLines(ls) ==
    {i \in 1..Len(ls) :
        /\ Len(ls[i]) >= Len(META_VAR) + 1
        /\ \A k \in 1..Len(META_VAR) : ls[i][k] = META_VAR[k]
        /\ ls[i][Len(META_VAR) + 1] = "="}

\* C16: the decoder returns absent for a commit message in which no line
\* begins with PR_BRANCH=, and otherwise the value of the first line that
\* begins with it, whatever lines precede or follow; the key anywhere else
\* than at the beginning of a line does not count.
C16_Decoder ==
    \A e \in 1..Len(lst) :
        LET ls == MessageLines(lst[e])
            first == CHOOSE i \in TrailerLines(ls) :
                        \A j \in TrailerLines(ls) : i <= j
        IN  IF TrailerLines(ls) = {}
            THEN lst[e].branch = None
            ELSE lst[e].branch =
                    SubSeq(ls[first], Len(META_VAR) + 2, Len(ls[first]))

\* C17: when the range main..branch holds no commits, listing returns an
\* empty sequence without error, and an export run over it issues no
\* mutating external call and exits with status 0.
C17_EmptyRange ==
    stack = <<>> /\ cmd \in {"export", "log"} =>
        /\ lst = <<>>
        /\ calls # <<>> /\ LastCall.name = "log" /\ LastCall.ok =>
              ~(pc = "exited" /\ exit = 1)
        /\ cmd = "export" =>
              /\ \A i \in 1..Len(calls) : calls[i].name \notin Mutating
              /\ calls # <<>> /\ LastCall.name = "GET pulls" /\ LastCall.ok =>
                    pc = "exited" /\ exit = 0

\* an export over an empty range ran to its end
C17_Witness ==
    /\ stack = <<>>
    /\ cmd = "export"
    /\ pc = "exited"
    /\ exit = 0
    /\ LastCall.name = "GET pulls"
    /\ \E i \in 1..Len(calls) : calls[i].name = "log" /\ calls[i].ok

\* the calls of this invocation that follow the configuration look-ups and
\* the clean-state check
Steps ==
    SelectSeq(calls, LAMBDA c : c.name \notin {"config", "rev-parse", "status"})

SyncSteps ==
    <<[name |-> "checkout", arg |-> config.main],
      [name |-> "pull", arg |-> config.main],
      [name |-> "checkout", arg |-> config.branch],
      [name |-> "rebase", arg |-> config.main]>>

\* C18: sync issues checkout of the integration branch, pull, checkout of the
\* working branch and rebase onto the integration branch, in this order, only
\* after the clean-state check passed and each only after the one before it
\* succeeded; when it completes without error the working branch is checked
\* out and sits on the integration branch as the pull of this run left it.
C18_SyncOrder ==
    cmd = "sync" =>
        /\ Len(Steps) <= Len(SyncSteps)
        /\ \A k \in 1..Len(Steps) :
              /\ Steps[k].name = SyncSteps[k].name
              /\ Steps[k].arg = SyncSteps[k].arg
              /\ k > 1 => Steps[k - 1].ok
        /\ Steps # <<>> => CleanObserved(Len(calls) - Len(Steps) + 1)
        /\ pc = "exited" /\ exit = 0 =>
              /\ Len(Steps) = Len(SyncSteps)
              /\ \A k \in 1..Len(Steps) : Steps[k].ok
              /\ head = config.branch
              /\ local[config.main] = remote[config.main]
              /\ base = upstream
              /\ local[config.branch] = Tip(stack, upstream)

\* a sync completed and moved the commits of the stack onto the pulled main
C18_Witness ==
    /\ cmd = "sync"
    /\ pc = "exited"
    /\ exit = 0
    /\ stack # <<>>
    /\ local[config.branch] # before.tip
    /\ head = config.branch

\* this export follows a new that made the only commit of the stack, from a
\* message of one line: the subject, an empty line, the trailer
AfterNew ==
    /\ cmd = "export"
    /\ prev.cmd = "new"
    /\ prev.exit = 0
    /\ prev.last.name = "commit"
    /\ Len(stack) = 1
    /\ stack[1].hash = NewHash
    /\ stack[1].body = <<<<>>, META_VAR \o <<"=">> \o prev.last.arg>>

\* C19: a commit created by new, for any issue identifier the parser accepts
\* and any message of one line, is parsed by listing without a parse error
\* into one entry whose branch is the name new embedded, and export skips
\* that entry as a draft.
C19_NewCommitIsListed ==
    AfterNew =>
        /\ calls # <<>> /\ LastCall.name = "log" /\ LastCall.ok =>
              ~(pc = "exited" /\ exit = 1)
        /\ pc = "exited" /\ exit = 0 =>
              /\ Len(lst) = 1
              /\ lst[1].commit = NewHash
              /\ lst[1].branch = prev.last.arg
              /\ EntryCalls(1) = <<>>
              /\ out = <<Report(1, "skipping, commit is work in progress")>>

\* export is about to start on an entry, or export_command has returned
BetweenEntries ==
    /\ cmd = "export"
    /\ pc = "export" \/ (pc = "exited" /\ exit = 0)

\* C20: on the non-failing path of an export run, at the start of each
\* entry's export and when export_command returns, the checked-out branch is
\* the working branch, the working branch points at the commit it pointed at
\* before the command, and no local branch named after the review branch of
\* an entry already exported exists.
C20_BetweenEntries ==
    BetweenEntries =>
        /\ head = config.branch
        /\ local[config.branch] = before.tip
        /\ \A e \in 1..Len(lst) :
              Exported(e) => local[lst[e].branch] = None

\* export is about to start on the second entry, the first one exported
C20_Witness ==
    /\ cmd = "export"
    /\ pc = "export"
    /\ idx = 2
    /\ Exported(1)
    /\ Eligible(lst[2])

\* the pull-request creation calls of this invocation for branch b, in the
\* order issued
Creations(b) ==
    SelectSeq(calls, LAMBDA c : c.name = "POST pulls" /\ c.arg = b)

\* C21: within one export run the pull-request creation call is issued at
\* most once per review-branch name, also when several entries of the stack
\* carry the same review-branch trailer.
C21_OneCreationPerBranch ==
    Exporting => \A b \in Branches : Len(Creations(b)) <= 1

\* the successful calls of this invocation that delete a local branch or
\* force-push a branch
Destructive ==
    SelectSeq(calls, LAMBDA c : c.ok /\ c.name \in {"branch -D", "push"})

\* C22: whatever the trailers of the stack hold, an export run never deletes
\* the local integration branch or the local working branch and never
\* force-pushes over the remote integration branch or the remote working
\* branch: every branch it deletes or force-pushes is a review branch.
C22_OnlyReviewBranches ==
    Exporting =>
        /\ \A i \in 1..Len(Destructive) :
              Destructive[i].arg \notin {config.main, config.branch}
        /\ remote[config.main] = MainCommit(upstream)

\* this export follows an export that completed successfully
AfterCompletedExport ==
    /\ cmd = "export"
    /\ prev.cmd = "export"
    /\ prev.exit = 0

\* C23: an export run that follows an export run that completed
\* successfully, over the same stack and with the platform listing the pull
\* requests created so far under owner:branch, issues no pull-request
\* creation call; when it ends without a failed call every remote branch
\* points at the commit it pointed at after the first run.
C23_SecondExportChangesNothing ==
    AfterCompletedExport =>
        /\ \A b \in Branches : Creations(b) = <<>>
        /\ pc = "exited" /\ NoCallFailed => remote = before.remote

\* the first run ended with the creation of a pull request, and the second
\* run pushed that branch again and ended normally
C23_Witness ==
    /\ AfterCompletedExport
    /\ prev.last.name = "POST pulls"
    /\ prev.last.ok
    /\ pc = "exited"
    /\ exit = 0
    /\ Pushes(prev.last.arg) # <<>>

====
